---- MODULE Spec2Model ----
(***************************************************************************)
(* Model of src/src/merkle.rs: the Merkle wrapper over the accumulator     *)
(* host calls, the hashed get/set through the payload cache, the generic   *)
(* sparse Merkle tree (4-word keys) and the packed one (u64 keys).         *)
(*                                                                         *)
(* A u64 is four 16-bit limbs, most significant first:                     *)
(*     <<"w", l3, l2, l1, l0>>                                             *)
(* A word of a digest produced by the hash function or by the accumulator  *)
(* is <<kind, top, i, term>>: top is the word's 16 most significant bits,  *)
(* i its position in the digest and term what was digested (carried by     *)
(* word 0), which makes both functions injective.  Element 2 of a word is  *)
(* its top limb in both shapes.  A u32 index is <<l1, l0>>.                *)
(***************************************************************************)
EXTENDS Integers, Sequences, FiniteSets, TLC

VARIABLES variant, root, cache, trace, aborted, rbMismatch, lastOp, ref, nops,
          wstep, derived, written, fifo, wlog, loaded, rlog

vars == <<variant, root, cache, trace, aborted, rbMismatch, lastOp, ref, nops,
          wstep, derived, written, fifo, wlog, loaded, rlog>>

\* the state of the witness glue
wvars == <<wstep, derived, written, fifo, wlog, loaded, rlog>>

\* the state of the Merkle wrapper
mvars == <<variant, root, cache, trace, aborted, rbMismatch, lastOp, ref, nops>>

\* no type derived, nothing written to the witness stream
NoWitness ==
    /\ wstep = "idle"
    /\ derived = [kind |-> "none", name |-> "", members |-> <<>>]
    /\ written = <<>> /\ fifo = <<>>
    /\ wlog = <<>> /\ loaded = <<>> /\ rlog = <<>>

(* Bounds of the model *)

NumKeys == 3
NumVals == 2
NumIdx == 1
MaxOps == 3

MaxSimpleOps == 2

MaxDeepOps == 2

(* 64-bit words *)

Limb == 2^16

W(n) == <<"w", 0, 0, 0, n>>

Zero == W(0)

ZeroHash == <<Zero, Zero, Zero, Zero>>

IsConcrete(w) == w[1] = "w"

RECURSIVE BitAnd16(_, _)
BitAnd16(x, y) ==
    IF x = 0 \/ y = 0 THEN 0
    ELSE (x % 2) * (y % 2) + 2 * BitAnd16(x \div 2, y \div 2)

BitOr16(x, y) == x + y - BitAnd16(x, y)

\* !mask
WordNot(mask) ==
    <<"w", Limb - 1 - mask[2], Limb - 1 - mask[3],
           Limb - 1 - mask[4], Limb - 1 - mask[5]>>

\* a & mask, mask a constant of the program
WordAnd(a, mask) ==
    IF IsConcrete(a)
    THEN <<"w", BitAnd16(a[2], mask[2]), BitAnd16(a[3], mask[3]),
                BitAnd16(a[4], mask[4]), BitAnd16(a[5], mask[5])>>
    ELSE IF mask[3] = Limb - 1 /\ mask[4] = Limb - 1 /\ mask[5] = Limb - 1
         THEN [a EXCEPT ![2] = BitAnd16(a[2], mask[2])]
         ELSE <<"w", BitAnd16(a[2], mask[2]), 0, 0, 0>>

\* a | mask, mask a constant of the program with only top-limb bits
WordOr(a, mask) ==
    IF IsConcrete(a)
    THEN <<"w", BitOr16(a[2], mask[2]), BitOr16(a[3], mask[3]),
                BitOr16(a[4], mask[4]), BitOr16(a[5], mask[5])>>
    ELSE [a EXCEPT ![2] = BitOr16(a[2], mask[2])]

\* a >> bits, bits a multiple of 32
Shr(a, bits) ==
    IF bits = 0 THEN a
    ELSE IF bits = 32 THEN <<"w", 0, 0, a[2], a[3]>>
    ELSE Zero

\* a as u32
AsU32(a) == <<a[4], a[5]>>

(* External collaborators: hash function, payload cache, accumulator,      *)
(* require.                                                                *)

\* PoseidonHasher::hash(data, pad): deterministic, injective, never zero
Hash(data, pad) ==
    [i \in 1..4 |-> <<"H", 0, i - 1, IF i = 1 THEN <<data, pad>> ELSE <<>> >>]

\* cache::store_data(hash, data): upsert
store_data(c, hash, data) ==
    [h \in DOMAIN c \cup {hash} |-> IF h = hash THEN data ELSE c[h]]

\* cache::fetch_data(hash, data): the payload, length 0 when absent
fetch_data(c, hash) == IF hash \in DOMAIN c THEN c[hash] ELSE <<>>

\* require(cond): fatal when cond is false
require(m, cond) == IF m.ok /\ ~cond THEN [m EXCEPT !.ok = FALSE] ELSE m

EmptyTree == [i \in {} |-> ZeroHash]

\* THE following is the depth=31, 32 level merkle root default
DefaultRoot ==
    << <<"w", 52543, 9930, 14598, 6609>>,
       <<"w", 38793, 53646, 10970, 49126>>,
       <<"w", 36627, 63833, 55937, 15107>>,
       <<"w", 10088, 14088, 22589, 24286>> >>

\* top 16 bits of word i of the root of a tree: below 2^62, as the root is
\* a field element; bit 61 may be set
RootTop(tree, i) ==
    IF i = 3 /\ Cardinality(DOMAIN tree) % 2 = 0 THEN 8192 ELSE 0

\* the accumulator's root of a tree (slots holding zero are absent)
AccRoot(tree) ==
    IF DOMAIN tree = {} THEN DefaultRoot
    ELSE [i \in 1..4 |->
            <<"R", RootTop(tree, i - 1), i - 1,
              IF i = 1 THEN tree ELSE <<>> >>]

\* does the accumulator hold a tree with this root
AccKnown(r) ==
    \/ r = DefaultRoot
    \/ /\ r[1][1] = "R"
       /\ r[1][3] = 0
       /\ DOMAIN r[1][4] # {}
       /\ r = AccRoot(r[1][4])

AccTree(r) == IF r = DefaultRoot THEN EmptyTree ELSE r[1][4]

\* merkle_get x4 at the addressed slot under the presented root
AccLeaf(r, index) ==
    IF index \in DOMAIN AccTree(r) THEN AccTree(r)[index] ELSE ZeroHash

\* merkle_set x4 at the addressed slot: the tree after the write
AccWrite(r, index, data) ==
    LET t == AccTree(r)
    IN  IF data = ZeroHash
        THEN [i \in DOMAIN t \ {index} |-> t[i]]
        ELSE [i \in DOMAIN t \cup {index} |->
                IF i = index THEN data ELSE t[i]]

\* what merkle_getroot returns after a read: the presented root, or another
\* root when the accumulator misbehaves
ReadBack(r, fault) == IF fault THEN [r EXCEPT ![1] = Zero] ELSE r

\* the accumulator calls of one block
Calls(name, ws) == [i \in 1..4 |-> <<name, ws[i]>>]

Emit(m, calls) == IF m.ok THEN [m EXCEPT !.trace = @ \o calls] ELSE m

(* struct Merkle: a method takes the machine m (ok, cache, trace, fault,   *)
(* mism) and self.root, and returns the machine and self.root after the    *)
(* call.  The value of a call that is used more than once is handed to a   *)
(* definition for the rest of the method as a parameter.                   *)

load(r) == r

\* mutant: a wrong word in the default root
new_bad == [DefaultRoot EXCEPT ![4] = Zero]

new == DefaultRoot

\* address(index), setroot x4: stops the machine on a root the accumulator
\* does not hold
Present(m, r, index) ==
    require(Emit(m, <<<<"address", index>>>> \o Calls("setroot", r)),
            AccKnown(r))

\* the machine after the four discarded merkle_getroot calls of a read
RootReadBack(m, r, rb) ==
    [Emit(m, Calls("getroot", rb)) EXCEPT !.mism = @ \/ (m.ok /\ rb # r)]

\* get_simple after address and setroot: d is what the slot holds
GetSimpleRead(m1, r, d) ==
    [m |-> RootReadBack(Emit(m1, Calls("get", d)), r, ReadBack(r, m1.fault)),
     root |-> r, data |-> d]

get_simple(m, r, index) ==
    GetSimpleRead(Present(m, r, index), r,
                  IF AccKnown(r) THEN AccLeaf(r, index) ELSE ZeroHash)

\* set_simple_unsafe after address and setroot: nr is the root after the
\* write
SetSimpleWrite(m1, data, nr) ==
    [m |-> Emit(m1, Calls("set", data) \o Calls("getroot", nr)), root |-> nr]

\* mutant: the four words are written last word first
set_simple_unsafe_rev(m, r, index, data) ==
    SetSimpleWrite(Present(m, r, index),
                   <<data[4], data[3], data[2], data[1]>>,
                   IF m.ok /\ AccKnown(r)
                   THEN AccRoot(AccWrite(r, index, data)) ELSE r)

\* mutant: self.root is not assigned from the read-back
set_simple_unsafe_noroot(m, r, index, data) ==
    [SetSimpleWrite(Present(m, r, index), data,
                    IF m.ok /\ AccKnown(r)
                    THEN AccRoot(AccWrite(r, index, data)) ELSE r)
       EXCEPT !.root = r]

set_simple_unsafe(m, r, index, data) ==
    SetSimpleWrite(Present(m, r, index), data,
                   IF m.ok /\ AccKnown(r)
                   THEN AccRoot(AccWrite(r, index, data)) ELSE r)

\* mutant: only the first word of the hint is compared
HintReadsFirst(hint, d, i) ==
    IF hint[1] # d[1] THEN [calls |-> <<<<"get", d[1]>>>>, pass |-> FALSE]
    ELSE [calls |-> Calls("get", d), pass |-> TRUE]

\* require(hint_data[i] == merkle_get()) for i = 0..3, stopping at the
\* first failure; the calls issued and whether all four passed
RECURSIVE HintReads(_, _, _)
HintReads(hint, d, i) ==
    IF i > 4 THEN [calls |-> <<>>, pass |-> TRUE]
    ELSE IF hint[i] # d[i] THEN [calls |-> <<<<"get", d[i]>>>>, pass |-> FALSE]
    ELSE LET rest == HintReads(hint, d, i + 1)
         IN  [calls |-> <<<<"get", d[i]>>>> \o rest.calls, pass |-> rest.pass]

NoHint == <<>>

\* the four merkle_get of set_simple: compared with the hint, or discarded
DummyGet(m1, hr) == require(Emit(m1, hr.calls), hr.pass)

\* set_simple after its read half left the machine m4
SetSimpleSet(m4, r, index, data) ==
    IF m4.ok THEN set_simple_unsafe(m4, r, index, data)
    ELSE [m |-> m4, root |-> r]

\* mutant: the write is not preceded by the read
set_simple_noread(m, r, index, data, hint) ==
    set_simple_unsafe(m, r, index, data)

set_simple(m, r, index, data, hint) ==
    SetSimpleSet(
        RootReadBack(
            DummyGet(Present(m, r, index),
                     IF hint = NoHint
                     THEN [calls |-> Calls("get", IF AccKnown(r)
                                                  THEN AccLeaf(r, index)
                                                  ELSE ZeroHash),
                           pass |-> TRUE]
                     ELSE HintReads(hint, IF AccKnown(r)
                                          THEN AccLeaf(r, index)
                                          ELSE ZeroHash, 1)),
            r, ReadBack(r, m.fault)),
        r, index, data)

\* require(hash[i] == hash_check[i]) for i = 0..3
HashCheck(m, hash, hash_check) ==
    require(require(require(require(m,
        hash[1] = hash_check[1]), hash[2] = hash_check[2]),
        hash[3] = hash_check[3]), hash[4] = hash_check[4])

GetResult(m1, r, data, hash) ==
    [m |-> m1, root |-> r, data |-> data, hash |-> hash,
     len |-> IF m1.ok THEN Len(data) ELSE 0]

\* mutant: a payload of length 0 is reported as a miss without looking at
\* the stored hash
GetFetched_nozero(g, data, pad) ==
    GetResult(IF Len(data) > 0
              THEN HashCheck(g.m, g.data, Hash(data, pad))
              ELSE g.m,
              g.root, data, g.data)

\* get after get_simple returned g and the cache returned data
GetFetched(g, data, pad) ==
    GetResult(IF Len(data) > 0
              THEN HashCheck(g.m, g.data, Hash(data, pad))
              ELSE HashCheck(g.m, g.data, ZeroHash),
              g.root, data, g.data)

GetFetch(g, pad) ==
    GetFetched(g, IF g.m.ok THEN fetch_data(g.m.cache, g.data) ELSE <<>>, pad)

\* mutant: the fetched payload is not hashed and compared
get_nocheck(m, r, index, pad) ==
    LET g    == get_simple(m, r, index)
        data == IF g.m.ok THEN fetch_data(g.m.cache, g.data) ELSE <<>>
        m1   == IF Len(data) > 0 THEN g.m
                ELSE require(g.m, g.data = ZeroHash)
    IN  [m |-> m1, root |-> g.root, data |-> data, hash |-> g.data,
         len |-> IF m1.ok THEN Len(data) ELSE 0]

get(m, r, index, pad) == GetFetch(get_simple(m, r, index), pad)

\* cache::store_data(&hash, data) on the machine
Store(m, hash, data) ==
    IF m.ok THEN [m EXCEPT !.cache = store_data(@, hash, data)] ELSE m

set(m, r, index, data, pad, hint) ==
    set_simple(Store(m, Hash(data, pad), data), r, index, Hash(data, pad),
               hint)

set_unsafe(m, r, index, data, pad) ==
    set_simple_unsafe(Store(m, Hash(data, pad), data), r, index,
                      Hash(data, pad))

(* Generic sparse Merkle tree *)

LEAF_NODE == 0

TREE_NODE == 1

\* mutant: only the first key word is compared
data_matches_key_first(data, key) == data[2] = key[1]

\* internal func: key must have length 4
data_matches_key(data, key) ==
    data[2] = key[1] /\ data[3] = key[2] /\ data[4] = key[3] /\ data[5] = key[4]

\* the first n words of the buffer after writing tag, key and data at its
\* start
set_smt_data(node_buf, t, key, data, n) ==
    SubSeq(<<W(t), key[1], key[2], key[3], key[4]>> \o data
              \o SubSeq(node_buf, 6 + Len(data), Len(node_buf)),
           1, n)

\* mutant: the shift is left out, the low half of the word is taken at
\* every level
LocalIndex_noshift(key, path_index) == AsU32(key[(path_index \div 2) + 1])

\* (key[path_index / 2] >> (32 * (path_index % 2))) as u32
LocalIndex(key, path_index) ==
    AsU32(Shr(key[(path_index \div 2) + 1], 32 * (path_index % 2)))

\* the deepest path_index at which a descent was entered
Enter(m, path_index) ==
    IF m.ok /\ path_index > m.depth THEN [m EXCEPT !.depth = path_index] ELSE m

\* (data[0] & 0x1) == t
TagIs(data, t) == WordAnd(data[1], W(1)) = W(t)

Miss(m, r) == [m |-> m, root |-> r, data |-> <<>>, len |-> 0]

\* the result of the descent into a sub-tree, seen from the parent
FromSub(sub, r) ==
    [m |-> sub.m, root |-> r, data |-> sub.data, len |-> sub.len]

RECURSIVE smt_get_local(_, _, _, _)

\* smt_get_local after self.get returned g
GetNode(g, key, path_index) ==
    IF ~g.m.ok \/ g.len = 0 THEN Miss(g.m, g.root)
    ELSE IF TagIs(g.data, LEAF_NODE)
    THEN IF data_matches_key(g.data, key)
         THEN [m |-> g.m, root |-> g.root,
               data |-> SubSeq(g.data, 6, g.len), len |-> g.len - 5]
         ELSE Miss(g.m, g.root)
    ELSE FromSub(smt_get_local(require(g.m, TagIs(g.data, TREE_NODE)),
                               load(SubSeq(g.data, 2, 5)), key,
                               path_index + 1),
                 g.root)

smt_get_local(m, r, key, path_index) ==
    IF m.ok /\ path_index < 8
    THEN GetNode(get(Enter(m, path_index), r, LocalIndex(key, path_index),
                     TRUE),
                 key, path_index)
    ELSE Miss(require(Enter(m, path_index), path_index < 8), r)

RECURSIVE smt_set_local(_, _, _, _, _)

\* mutant: the node buffer is not refreshed with the root of the sub-tree
FoldSub_stale(s, r, local_index, node_buf) ==
    IF s.m.ok
    THEN set(s.m, r, local_index,
             set_smt_data(node_buf, TREE_NODE, SubSeq(node_buf, 2, 5), <<>>,
                          5),
             TRUE, NoHint)
    ELSE [m |-> s.m, root |-> r]

\* the sub-tree s is folded into the slot of the parent as a TREE node
FoldSub(s, r, local_index, node_buf) ==
    IF s.m.ok
    THEN set(s.m, r, local_index,
             set_smt_data(node_buf, TREE_NODE, s.root, <<>>, 5), TRUE, NoHint)
    ELSE [m |-> s.m, root |-> r]

\* mutant: the new entry goes into a sub-tree of its own, the one holding
\* the old entry is dropped
SplitNew_fresh(s1, key, path_index, data) ==
    smt_set_local(s1.m, new, key, path_index + 1, data)

\* the new entry goes into the sub-tree s1 that holds the old one
SplitNew(s1, key, path_index, data) ==
    smt_set_local(s1.m, s1.root, key, path_index + 1, data)

\* smt_set_local after self.get returned g
SetNode(g, key, path_index, data) ==
    IF ~g.m.ok THEN [m |-> g.m, root |-> g.root]
    ELSE IF g.len = 0
            \/ (TagIs(g.data, LEAF_NODE) /\ data_matches_key(g.data, key))
    THEN set_unsafe(g.m, g.root, LocalIndex(key, path_index),
                    set_smt_data(g.data, LEAF_NODE, key, data,
                                 5 + Len(data)),
                    TRUE)
    ELSE FoldSub(
            IF TagIs(g.data, LEAF_NODE)
            THEN SplitNew(smt_set_local(g.m, new, SubSeq(g.data, 2, 5),
                                        path_index + 1,
                                        SubSeq(g.data, 6, g.len)),
                          key, path_index, data)
            ELSE smt_set_local(require(g.m, TagIs(g.data, TREE_NODE)),
                               load(SubSeq(g.data, 2, 5)), key,
                               path_index + 1, data),
            g.root, LocalIndex(key, path_index), g.data)

\* mutant: a leaf of another key is overwritten, a sub-tree is never made
smt_set_local_nosplit(m, r, key, path_index, data) ==
    LET m0 == require(m, path_index < 8)
        local_index == LocalIndex(key, path_index)
        g  == get(m0, r, local_index, TRUE)
    IN  set_unsafe(g.m, g.root, local_index,
                   set_smt_data(g.data, LEAF_NODE, key, data, 5 + Len(data)),
                   TRUE)

\* mutant: at path_index 8 the call returns instead of failing
smt_set_local_silent(m, r, key, path_index, data) ==
    IF m.ok /\ path_index < 8
    THEN SetNode(get(Enter(m, path_index), r, LocalIndex(key, path_index),
                     TRUE),
                 key, path_index, data)
    ELSE [m |-> Enter(m, path_index), root |-> r]

smt_set_local(m, r, key, path_index, data) ==
    IF m.ok /\ path_index < 8
    THEN SetNode(get(Enter(m, path_index), r, LocalIndex(key, path_index),
                     TRUE),
                 key, path_index, data)
    ELSE [m |-> require(Enter(m, path_index), path_index < 8), root |-> r]

\* impl SMT for Merkle
smt_get(m, r, key) == smt_get_local(m, r, key, 0)

smt_set(m, r, key, data) == smt_set_local(m, r, key, 0, data)

(* Packed sparse Merkle tree, u64 keys *)

\* 0b1000000 << 56
IS_NODE_BIT == <<"w", 16384, 0, 0, 0>>

\* 0b100000 << 56
IS_EMPTY_BIT == <<"w", 8192, 0, 0, 0>>

\* mutant: the wrong flag bit is tested
is_leaf_wrongbit(a) == WordAnd(a, IS_EMPTY_BIT) = Zero

is_leaf(a) == WordAnd(a, IS_NODE_BIT) = Zero

is_empty(a) == WordAnd(a, IS_EMPTY_BIT) = Zero

\* mutant: both flag bits of word 3 are cleared
ClearNode_bothflags(stored_data) ==
    [stored_data EXCEPT ![4] = WordAnd(@, WordNot(<<"w", 24576, 0, 0, 0>>))]

\* stored_data with the NODE flag of word 3 cleared
ClearNode(stored_data) ==
    [stored_data EXCEPT ![4] = WordAnd(@, WordNot(IS_NODE_BIT))]

\* mutant: the other flag is set on the sub-tree root
TagNode_emptybit(r) == [r EXCEPT ![4] = WordOr(@, IS_EMPTY_BIT)]

\* a root with the NODE flag of word 3 set
TagNode(r) == [r EXCEPT ![4] = WordOr(@, IS_NODE_BIT)]

Value(m, r, v) == [m |-> m, root |-> r, value |-> IF m.ok THEN v ELSE Zero]

\* the result of the descent into a sub-tree, seen from the parent
FromSubU64(sub, r) == Value(sub.m, r, sub.value)

RECURSIVE smt_get_local_u64(_, _, _, _)

\* smt_get_local_u64 after get_simple returned g
GetNodeU64(g, key, path_index) ==
    IF ~g.m.ok THEN Value(g.m, g.root, Zero)
    ELSE IF is_leaf(g.data[4])
    THEN IF ~is_empty(g.data[4]) /\ key = g.data[1]
         THEN Value(g.m, g.root, g.data[2])
         ELSE Value(g.m, g.root, Zero)
    ELSE FromSubU64(smt_get_local_u64(require(g.m, path_index = 0),
                                      load(ClearNode(g.data)), key,
                                      path_index + 1),
                    g.root)

smt_get_local_u64(m, r, key, path_index) ==
    IF m.ok /\ path_index < 2
    THEN GetNodeU64(get_simple(Enter(m, path_index), r,
                               AsU32(Shr(key, 32 * (path_index % 2)))),
                    key, path_index)
    ELSE Value(require(Enter(m, path_index), path_index < 2), r, Zero)

RECURSIVE smt_set_local_u64(_, _, _, _, _)

\* the sub-tree s is folded into the slot of the parent, tagged NODE
FoldSubU64(s, r, local_index) ==
    IF s.m.ok THEN set_simple(s.m, r, local_index, TagNode(s.root), NoHint)
    ELSE [m |-> s.m, root |-> r]

\* the new entry goes into the sub-tree s1 that holds the old one
SplitNewU64(s1, key, path_index, data) ==
    smt_set_local_u64(s1.m, s1.root, key, path_index + 1, data)

\* mutant: stored_data[1] = data is left out of the overwrite
SetNodeU64_keepvalue(g, key, path_index, data) ==
    IF ~g.m.ok THEN [m |-> g.m, root |-> g.root]
    ELSE IF is_leaf(g.data[4]) /\ (is_empty(g.data[4]) \/ key = g.data[1])
    THEN set_simple(g.m, g.root, AsU32(Shr(key, 32 * path_index)),
                    IF is_empty(g.data[4])
                    THEN <<key, data, Zero, IS_EMPTY_BIT>>
                    ELSE [g.data EXCEPT ![1] = key],
                    NoHint)
    ELSE FoldSubU64(
            IF is_leaf(g.data[4])
            THEN SplitNewU64(smt_set_local_u64(g.m, new, g.data[1],
                                               path_index + 1, g.data[2]),
                             key, path_index, data)
            ELSE smt_set_local_u64(require(g.m, path_index = 0),
                                   load(ClearNode(g.data)), key,
                                   path_index + 1, data),
            g.root, AsU32(Shr(key, 32 * path_index)))

\* smt_set_local_u64 after get_simple returned g
SetNodeU64(g, key, path_index, data) ==
    IF ~g.m.ok THEN [m |-> g.m, root |-> g.root]
    ELSE IF is_leaf(g.data[4]) /\ (is_empty(g.data[4]) \/ key = g.data[1])
    THEN set_simple(g.m, g.root, AsU32(Shr(key, 32 * path_index)),
                    IF is_empty(g.data[4])
                    THEN <<key, data, Zero, IS_EMPTY_BIT>>
                    ELSE [g.data EXCEPT ![1] = key, ![2] = data],
                    NoHint)
    ELSE FoldSubU64(
            IF is_leaf(g.data[4])
            THEN SplitNewU64(smt_set_local_u64(g.m, new, g.data[1],
                                               path_index + 1, g.data[2]),
                             key, path_index, data)
            ELSE smt_set_local_u64(require(g.m, path_index = 0),
                                   load(ClearNode(g.data)), key,
                                   path_index + 1, data),
            g.root, AsU32(Shr(key, 32 * path_index)))

\* mutant: the stored key is not compared, the slot is overwritten
smt_set_local_u64_overwrite(m, r, key, path_index, data) ==
    LET m0 == require(m, path_index < 2)
        local_index == AsU32(Shr(key, 32 * path_index))
        g  == get_simple(m0, r, local_index)
    IN  set_simple(g.m, g.root, local_index,
                   <<key, data, Zero, IS_EMPTY_BIT>>, NoHint)

\* mutant: require(path_index < 2) is left out (the shift count wraps at 64)
smt_set_local_u64_nolimit(m, r, key, path_index, data) ==
    IF m.ok
    THEN SetNodeU64(get_simple(Enter(m, path_index), r,
                               AsU32(Shr(key, 32 * (path_index % 2)))),
                    key, path_index % 2, data)
    ELSE [m |-> m, root |-> r]

smt_set_local_u64(m, r, key, path_index, data) ==
    IF m.ok /\ path_index < 2
    THEN SetNodeU64(get_simple(Enter(m, path_index), r,
                               AsU32(Shr(key, 32 * path_index))),
                    key, path_index, data)
    ELSE [m |-> require(Enter(m, path_index), path_index < 2), root |-> r]

\* impl SMTU64 for Merkle
smt_get_u64(m, r, key) == smt_get_local_u64(m, r, key, 0)

smt_set_u64(m, r, key, data) == smt_set_local_u64(m, r, key, 0, data)

(* Inputs of the operations *)

\* the one non-zero 32-bit segment of key n >= 2: segments 1, 2, 0, 3, 4..
OneSegment(n) ==
    IF ((n - 2) % 8) < 3 THEN (((n - 2) % 8) + 1) % 3 ELSE (n - 2) % 8

\* 4-word keys: key 1 is all zero; keys 2 and 3 share their level-0 slot
\* with key 1, key 3 also its level-1 slot; key 4 has a level-0 slot of its
\* own
Segment(n, s) ==
    IF n >= 2 /\ s = OneSegment(n) THEN 1 + ((n - 2) \div 8) ELSE 0

GenKey(n) ==
    [j \in 1..4 |-> <<"w", 0, Segment(n, 2 * j - 1), 0, Segment(n, 2 * j - 2)>>]

\* payloads: value j has j - 1 words
Val(j) == [i \in 1..(j - 1) |-> W(10 + j)]

\* 4-word keys that differ in their last word only: keys 1, 2 and 3 share
\* the slots of levels 0 to 6 and part at level 7; key 4 parts at level 6
DeepKey(n) ==
    <<Zero, Zero, Zero,
      IF n <= 3 THEN <<"w", 0, n - 1, 0, 0>> ELSE <<"w", 0, 0, 0, n - 3>> >>

\* u64 keys: keys 2i - 1 and 2i + 1 share their low 32 bits
PackedKey(n) == <<"w", 0, (n - 1) \div 2, 0, (n - 1) % 2>>

PackedVal(j) == W(j - 1)

Idx(n) == <<0, n - 1>>

RawData(j) == IF j = 0 THEN ZeroHash ELSE <<W(j), W(j), W(j), W(j + 1)>>

\* hints: none, the stored hash, or the stored hash with word w replaced
Hints(stored) ==
    {NoHint, stored} \cup {[stored EXCEPT ![w] = W(99)] : w \in 1..4}

Machine(fault) ==
    [ok |-> TRUE, cache |-> cache, trace |-> <<>>, fault |-> fault,
     mism |-> FALSE, depth |-> 0]

Op(name, key, val, idx, pad, hint, len, out) ==
    [name |-> name, key |-> key, val |-> val, idx |-> idx, pad |-> pad,
     hint |-> hint, len |-> len, out |-> out, pre |-> root, depth |-> 0]

\* the state after an operation that returned res (machine and self.root)
After(res, op, newref) ==
    /\ root' = res.root
    /\ cache' = res.m.cache
    /\ trace' = res.m.trace
    /\ aborted' = ~res.m.ok
    /\ rbMismatch' = res.m.mism
    /\ lastOp' = [op EXCEPT !.depth = res.m.depth]
    /\ ref' = IF res.m.ok THEN newref ELSE ref
    /\ nops' = nops + 1
    /\ UNCHANGED variant
    /\ UNCHANGED wvars

\* the record of a read: what it returned
Returned(op, len, out) == [op EXCEPT !.len = len, !.out = out]

AfterGet(g, op) == After(g, Returned(op, g.len, g.data), ref)

AfterGetU64(g, op) == After(g, Returned(op, 0, g.value), ref)

AfterGetSimple(g, op) == After(g, Returned(op, 0, g.data), ref)

AfterGetHashed(g, op) ==
    After(g, [Returned(op, g.len, g.data) EXCEPT !.hint = g.hash], ref)

Init ==
    /\ variant \in {"generic", "packed", "simple"}
    /\ root = new
    /\ cache = [h \in {} |-> <<>>]
    /\ trace = <<>>
    /\ aborted = FALSE
    /\ rbMismatch = FALSE
    /\ lastOp = [name |-> "new", key |-> 0, val |-> 0, idx |-> 0,
                 pad |-> FALSE, hint |-> NoHint, len |-> 0, out |-> <<>>,
                 pre |-> new, depth |-> 0]
    /\ ref = IF variant = "simple" THEN [n \in 1..NumIdx |-> ZeroHash]
             ELSE [k \in 1..NumKeys |-> 0]
    /\ nops = 0
    /\ NoWitness

SmtSet(k, v, fault) ==
    /\ variant = "generic" /\ ~aborted /\ nops < MaxOps
    /\ After(smt_set(Machine(fault), root, GenKey(k), Val(v)),
             Op("smt_set", k, v, 0, TRUE, NoHint, 0, <<>>),
             [ref EXCEPT ![k] = v])

SmtGet(k, fault) ==
    /\ variant = "generic" /\ ~aborted /\ nops < MaxOps
    /\ AfterGet(smt_get(Machine(fault), root, GenKey(k)),
                Op("smt_get", k, 0, 0, TRUE, NoHint, 0, <<>>))

SmtSetU64(k, v, fault) ==
    /\ variant = "packed" /\ ~aborted /\ nops < MaxOps
    /\ After(smt_set_u64(Machine(fault), root, PackedKey(k), PackedVal(v)),
             Op("smt_set_u64", k, v, 0, FALSE, NoHint, 0, <<>>),
             [ref EXCEPT ![k] = v])

SmtGetU64(k, fault) ==
    /\ variant = "packed" /\ ~aborted /\ nops < MaxOps
    /\ AfterGetU64(smt_get_u64(Machine(fault), root, PackedKey(k)),
                   Op("smt_get_u64", k, 0, 0, FALSE, NoHint, 0, <<>>))

GetSimple(n, fault) ==
    /\ variant = "simple" /\ ~aborted /\ nops < MaxSimpleOps
    /\ AfterGetSimple(get_simple(Machine(fault), root, Idx(n)),
                      Op("get_simple", 0, 0, n, FALSE, NoHint, 0, <<>>))

SetSimpleUnsafe(n, j, fault) ==
    /\ variant = "simple" /\ ~aborted /\ nops < MaxSimpleOps
    /\ After(set_simple_unsafe(Machine(fault), root, Idx(n), RawData(j)),
             Op("set_simple_unsafe", 0, j, n, FALSE, NoHint, 0, RawData(j)),
             [ref EXCEPT ![n] = RawData(j)])

SetSimple(n, j, hint, fault) ==
    /\ variant = "simple" /\ ~aborted /\ nops < MaxSimpleOps
    /\ After(set_simple(Machine(fault), root, Idx(n), RawData(j), hint),
             Op("set_simple", 0, j, n, FALSE, hint, 0, RawData(j)),
             [ref EXCEPT ![n] = RawData(j)])

Get(n, pad, fault) ==
    /\ variant = "simple" /\ ~aborted /\ nops < MaxSimpleOps
    /\ AfterGetHashed(get(Machine(fault), root, Idx(n), pad),
                      Op("get", 0, 0, n, pad, NoHint, 0, <<>>))

Set(n, v, pad, hint, fault) ==
    /\ variant = "simple" /\ ~aborted /\ nops < MaxSimpleOps
    /\ After(set(Machine(fault), root, Idx(n), Val(v), pad, hint),
             Op("set", 0, v, n, pad, hint, 0, Hash(Val(v), pad)),
             [ref EXCEPT ![n] = Hash(Val(v), pad)])

SetUnsafe(n, v, pad, fault) ==
    /\ variant = "simple" /\ ~aborted /\ nops < MaxSimpleOps
    /\ After(set_unsafe(Machine(fault), root, Idx(n), Val(v), pad),
             Op("set_unsafe", 0, v, n, pad, NoHint, 0, Hash(Val(v), pad)),
             [ref EXCEPT ![n] = Hash(Val(v), pad)])

\* the payload cached under h hashes to h
Intact(c, h) == \E pad \in BOOLEAN : Hash(c[h], pad) = h

\* every payload in the cache hashes to its key
CacheIntact == \A h \in DOMAIN cache : Intact(cache, h)

\* the accumulator may fail to read back the root it was given while the
\* cache is intact: one failure at a time
Faults == IF CacheIntact THEN BOOLEAN ELSE {FALSE}

Next ==
    \/ \E k \in 1..NumKeys, v \in 1..NumVals, f \in Faults : SmtSet(k, v, f)
    \/ \E k \in 1..NumKeys, f \in Faults : SmtGet(k, f)
    \/ \E k \in 1..NumKeys, v \in 1..NumVals, f \in Faults :
          SmtSetU64(k, v, f)
    \/ \E k \in 1..NumKeys, f \in Faults : SmtGetU64(k, f)
    \/ \E n \in 1..NumIdx, f \in Faults : GetSimple(n, f)
    \/ \E n \in 1..NumIdx, j \in 0..NumVals, f \in Faults :
          SetSimpleUnsafe(n, j, f)
    \/ \E n \in 1..NumIdx, j \in 0..NumVals, f \in Faults :
          \E hint \in Hints(AccLeaf(root, Idx(n))) : SetSimple(n, j, hint, f)
    \/ \E n \in 1..NumIdx, pad \in BOOLEAN, f \in Faults : Get(n, pad, f)
    \/ \E n \in 1..NumIdx, v \in 1..NumVals, pad \in BOOLEAN, f \in Faults :
          \E hint \in Hints(AccLeaf(root, Idx(n))) : Set(n, v, pad, hint, f)
    \/ \E n \in 1..NumIdx, v \in 1..NumVals, pad \in BOOLEAN, f \in Faults :
          SetUnsafe(n, v, pad, f)

Spec == Init /\ [][Next]_vars

(* The generic tree with keys that share all but their last segments *)

InitDeep ==
    /\ variant = "deep"
    /\ root = new
    /\ cache = [h \in {} |-> <<>>]
    /\ trace = <<>>
    /\ aborted = FALSE
    /\ rbMismatch = FALSE
    /\ lastOp = [name |-> "new", key |-> 0, val |-> 0, idx |-> 0,
                 pad |-> FALSE, hint |-> NoHint, len |-> 0, out |-> <<>>,
                 pre |-> new, depth |-> 0]
    /\ ref = [k \in 1..NumKeys |-> 0]
    /\ nops = 0
    /\ NoWitness

SmtSetDeep(k, v, fault) ==
    /\ variant = "deep" /\ ~aborted /\ nops < MaxDeepOps
    /\ After(smt_set(Machine(fault), root, DeepKey(k), Val(v)),
             Op("smt_set", k, v, 0, TRUE, NoHint, 0, <<>>),
             [ref EXCEPT ![k] = v])

SmtGetDeep(k, fault) ==
    /\ variant = "deep" /\ ~aborted /\ nops < MaxDeepOps
    /\ AfterGet(smt_get(Machine(fault), root, DeepKey(k)),
                Op("smt_get", k, 0, 0, TRUE, NoHint, 0, <<>>))

NextDeep ==
    \/ \E k \in 1..NumKeys, v \in 1..NumVals, f \in BOOLEAN :
          SmtSetDeep(k, v, f)
    \/ \E k \in 1..NumKeys, f \in BOOLEAN : SmtGetDeep(k, f)

SpecDeep == InitDeep /\ [][NextDeep]_vars

(* The payload cache may be altered behind the program's back: an entry    *)
(* that still hashes to its key gets another payload under the same key.   *)


\* another payload: one word longer, or with bit 0 of its first word set
\* (which turns a LEAF tag into a TREE tag)
Alterations(payload) ==
    {payload \o <<Zero>>}
        \cup (IF payload = <<>> THEN {}
              ELSE {[payload EXCEPT ![1] = WordOr(@, W(1))]})

\* the hashes stored in the slots of tree r and, in the generic tree, of
\* the sub-trees its TREE nodes lead to
RECURSIVE Stored(_, _, _)
Stored(r, c, depth) ==
    LET t  == AccTree(r)
        hs == {t[i] : i \in DOMAIN t} \cap DOMAIN c
    IN  hs \cup UNION {IF variant = "generic" /\ depth < 7
                            /\ Len(c[h]) >= 5 /\ c[h][1] = W(TREE_NODE)
                         THEN Stored(SubSeq(c[h], 2, 5), c, depth + 1)
                         ELSE {} : h \in hs}

\* the payload of one stored hash is altered, once, after an operation on
\* which the accumulator did not fail, with one operation left to run on
\* the altered cache
Corrupt ==
    /\ ~aborted /\ ~rbMismatch
    /\ nops + 1 = (IF variant = "simple" THEN MaxSimpleOps ELSE MaxOps)
    /\ CacheIntact
    /\ \E h \in Stored(root, cache, 0) :
          \E alt \in Alterations(cache[h]) \ {cache[h]} :
             cache' = [cache EXCEPT ![h] = alt]
    /\ trace' = <<>>
    /\ lastOp' = Op("corrupt", 0, 0, 0, FALSE, NoHint, 0, <<>>)
    /\ UNCHANGED <<variant, root, aborted, rbMismatch, ref, nops>>
    /\ UNCHANGED wvars

NextCorrupt == Next \/ Corrupt

SpecCorrupt == Init /\ [][NextCorrupt]_vars

(* Observations: the result of an operation run on the present state with  *)
(* an accumulator that reads the root back unchanged.                      *)

Quiet(c) ==
    [ok |-> TRUE, cache |-> c, trace |-> <<>>, fault |-> FALSE, mism |-> FALSE,
     depth |-> 0]

ObsGet(r, c, k) ==
    LET g == smt_get(Quiet(c), r, GenKey(k)) IN <<g.m.ok, g.len, g.data>>

ObsGetU64(r, c, k) ==
    LET g == smt_get_u64(Quiet(c), r, PackedKey(k)) IN <<g.m.ok, g.value>>

Generic == variant = "generic"

Packed == variant = "packed"

Simple == variant = "simple"

\* C1: in the generic tree every key that was set reads back the payload of
\* its most recent smt_set, same length and same words, and no operation
\* aborts
C1_GenericRoundTrip ==
    Generic =>
        /\ ~aborted
        /\ \A k \in 1..NumKeys :
              ref[k] # 0 =>
                 ObsGet(root, cache, k)
                    = <<TRUE, Len(Val(ref[k])), Val(ref[k])>>
        /\ (lastOp.name = "smt_get" /\ ref[lastOp.key] # 0) =>
              /\ lastOp.len = Len(Val(ref[lastOp.key]))
              /\ lastOp.out = Val(ref[lastOp.key])

\* keys 1 and 3 share a slot; key 3 was overwritten or set to value 2 and is
\* read back by smt_get
C1_Witness ==
    /\ Generic /\ ~aborted
    /\ lastOp.name = "smt_get" /\ lastOp.key = 3
    /\ ref[1] = 1 /\ ref[3] = 2
    /\ lastOp.out = Val(2) /\ lastOp.len = 1

\* C2: in the packed tree every key that was set reads back the value of its
\* most recent smt_set, also for keys sharing their low 32 bits, and no
\* operation aborts
C2_PackedRoundTrip ==
    Packed =>
        /\ ~aborted
        /\ \A k \in 1..NumKeys :
              ref[k] # 0 =>
                 ObsGetU64(root, cache, k) = <<TRUE, PackedVal(ref[k])>>
        /\ (lastOp.name = "smt_get_u64" /\ ref[lastOp.key] # 0) =>
              lastOp.out = PackedVal(ref[lastOp.key])

\* keys 1 and 3 share their low 32 bits, both are set, key 3 is read back
C2_Witness ==
    /\ Packed /\ ~aborted
    /\ lastOp.name = "smt_get_u64" /\ lastOp.key = 3
    /\ ref[1] = 1 /\ ref[3] = 2
    /\ lastOp.out = PackedVal(2)
    /\ ~is_leaf(AccLeaf(root, AsU32(PackedKey(3)))[4])

\* the slot where the descent for key ends in tree r: its level, the wrapper
\* root at that level and the node found (empty when the slot is empty)
RECURSIVE PathSlot(_, _, _, _)
PathSlot(r, c, key, p) ==
    LET leaf == AccLeaf(r, LocalIndex(key, p))
        node == fetch_data(c, leaf)
    IN  IF node = <<>> \/ p >= 7 \/ node[1] # W(TREE_NODE)
        THEN [level |-> p, root |-> r, node |-> node]
        ELSE PathSlot(SubSeq(node, 2, 5), c, key, p + 1)

\* the node in the slot of level i on the path of key in tree r
RECURSIVE NodeAt(_, _, _, _, _)
NodeAt(r, c, key, p, i) ==
    LET node == fetch_data(c, AccLeaf(r, LocalIndex(key, p)))
    IN  IF p = i \/ node = <<>> \/ node[1] # W(TREE_NODE) THEN node
        ELSE NodeAt(SubSeq(node, 2, 5), c, key, p + 1, i)

\* the last operation was a generic smt_set whose descent ended on a leaf
\* holding another key
Collided ==
    /\ Generic /\ lastOp.name = "smt_set"
    /\ LET slot == PathSlot(lastOp.pre, cache, GenKey(lastOp.key), 0)
       IN  /\ slot.node # <<>>
           /\ slot.node[1] = W(LEAF_NODE)
           /\ SubSeq(slot.node, 2, 5) # GenKey(lastOp.key)

\* C3: a generic smt_set(k2, v2) that reaches at level i a leaf of another
\* key k1 leaves in that slot a TREE node whose sub-tree, read from level
\* i + 1, yields v1 for k1 and v2 for k2, and so does smt_get from the top
C3_CollisionSplit ==
    Collided =>
        LET k2   == GenKey(lastOp.key)
            v2   == Val(lastOp.val)
            slot == PathSlot(lastOp.pre, cache, k2, 0)
            k1   == SubSeq(slot.node, 2, 5)
            v1   == SubSeq(slot.node, 6, Len(slot.node))
            node == NodeAt(root, cache, k2, 0, slot.level)
            sub  == SubSeq(node, 2, 5)
            g1   == smt_get_local(Quiet(cache), sub, k1, slot.level + 1)
            g2   == smt_get_local(Quiet(cache), sub, k2, slot.level + 1)
            t1   == smt_get(Quiet(cache), root, k1)
            t2   == smt_get(Quiet(cache), root, k2)
        IN  /\ ~aborted
            /\ Len(node) = 5 /\ node[1] = W(TREE_NODE)
            /\ g1.m.ok /\ g1.len = Len(v1) /\ g1.data = v1
            /\ g2.m.ok /\ g2.len = Len(v2) /\ g2.data = v2
            /\ t1.m.ok /\ t1.len = Len(v1) /\ t1.data = v1
            /\ t2.m.ok /\ t2.len = Len(v2) /\ t2.data = v2

\* key 3 was set into a tree where key 1 sat alone in a level-1 slot of the
\* sub-tree made by the collision of keys 1 and 2
C3_Witness ==
    /\ Collided /\ ~aborted
    /\ lastOp.key = 3 /\ ref[1] # 0 /\ ref[2] # 0
    /\ PathSlot(lastOp.pre, cache, GenKey(3), 0).level = 1

\* C4: an smt_set of key k, generic or packed, leaves the result of smt_get
\* of every other key as it was before the set
C4_SetFrame ==
    [][/\ (Generic /\ lastOp'.name = "smt_set") =>
            \A k2 \in 1..NumKeys \ {lastOp'.key} :
               ObsGet(root', cache', k2) = ObsGet(root, cache, k2)
       /\ (Packed /\ lastOp'.name = "smt_set_u64") =>
            \A k2 \in 1..NumKeys \ {lastOp'.key} :
               ObsGetU64(root', cache', k2) = ObsGetU64(root, cache, k2)
      ]_vars

\* key 3 was set in the packed tree while key 1, which shares its level-0
\* slot, and key 2, which has another, hold values
C4_Witness ==
    /\ Packed /\ ~aborted
    /\ lastOp.name = "smt_set_u64" /\ lastOp.key = 3
    /\ ref[1] = 2 /\ ref[2] = 2

IsReadBlock(t, p) ==
    /\ p >= 1 /\ p + 12 <= Len(t)
    /\ t[p][1] = "address"
    /\ \A i \in 1..4 : /\ t[p + i][1] = "setroot"
                       /\ t[p + 4 + i][1] = "get"
                       /\ t[p + 8 + i][1] = "getroot"

IsWriteBlock(t, p) ==
    /\ p >= 1 /\ p + 12 <= Len(t)
    /\ t[p][1] = "address"
    /\ \A i \in 1..4 : /\ t[p + i][1] = "setroot"
                       /\ t[p + 4 + i][1] = "set"
                       /\ t[p + 8 + i][1] = "getroot"

\* a merkle_set call opens the data part of a block starting at p
WriteStartsAt(t, p) ==
    /\ t[p][1] = "address"
    /\ p + 5 <= Len(t)
    /\ t[p + 5][1] = "set"

\* C5: in the accumulator calls of set_simple, set, generic smt_set and
\* packed smt_set every write block comes right after a read block on the
\* same index presenting the same root
C5_ReadBeforeWrite ==
    lastOp.name \in {"set_simple", "set", "smt_set", "smt_set_u64"} =>
        \A p \in 1..Len(trace) :
            WriteStartsAt(trace, p) =>
                /\ IsWriteBlock(trace, p)
                /\ IsReadBlock(trace, p - 13)
                /\ \A i \in 0..4 : trace[p - 13 + i] = trace[p + i]

\* a generic smt_set that split a leaf: its calls hold write blocks of the
\* sub-tree and of the parent slot
C5_Witness ==
    /\ Collided /\ ~aborted
    /\ Cardinality({p \in 1..Len(trace) : WriteStartsAt(trace, p)}) >= 3

StoredBefore == AccLeaf(lastOp.pre, Idx(lastOp.idx))

WrongHint ==
    /\ lastOp.name \in {"set_simple", "set"}
    /\ lastOp.hint # NoHint
    /\ lastOp.hint # StoredBefore

\* C6: set_simple or set with a hint that differs from the stored hash in
\* some word aborts before any merkle_set call; the slot and the root stay
C6_HintMismatchFatal ==
    WrongHint =>
        /\ aborted
        /\ \A p \in 1..Len(trace) : trace[p][1] # "set"
        /\ root = lastOp.pre
        /\ AccLeaf(root, Idx(lastOp.idx)) = StoredBefore

\* the hint is wrong in its last word only and the slot holds a hash
C6_Witness ==
    /\ WrongHint /\ aborted
    /\ StoredBefore # ZeroHash
    /\ \A i \in 1..3 : lastOp.hint[i] = StoredBefore[i]
    /\ Len(trace) = 9

\* a call without what the accumulator returned
CallOf(e) == IF e[1] \in {"get", "getroot"} THEN <<e[1]>> ELSE e

CallsOf(t) == [i \in 1..Len(t) |-> CallOf(t[i])]

ExpectedRead(index, r) ==
    << <<"address", index>>,
       <<"setroot", r[1]>>, <<"setroot", r[2]>>,
       <<"setroot", r[3]>>, <<"setroot", r[4]>>,
       <<"get">>, <<"get">>, <<"get">>, <<"get">>,
       <<"getroot">>, <<"getroot">>, <<"getroot">>, <<"getroot">> >>

ExpectedWrite(index, r, data) ==
    << <<"address", index>>,
       <<"setroot", r[1]>>, <<"setroot", r[2]>>,
       <<"setroot", r[3]>>, <<"setroot", r[4]>>,
       <<"set", data[1]>>, <<"set", data[2]>>,
       <<"set", data[3]>>, <<"set", data[4]>>,
       <<"getroot">>, <<"getroot">>, <<"getroot">>, <<"getroot">> >>

\* C7: get_simple issues address, setroot x4 with root[0..3], get x4 filling
\* data[0..3], getroot x4 and nothing else; a set_simple that completes
\* issues that read block and then address, setroot x4, set x4 with
\* data[0..3], getroot x4, with or without a hint
C7_ExactCallStream ==
    /\ (lastOp.name = "get_simple" /\ ~aborted) =>
          /\ CallsOf(trace) = ExpectedRead(Idx(lastOp.idx), lastOp.pre)
          /\ \A i \in 1..4 : trace[5 + i][2] = lastOp.out[i]
    /\ (lastOp.name = "set_simple" /\ ~aborted) =>
          CallsOf(trace) =
             ExpectedRead(Idx(lastOp.idx), lastOp.pre)
                \o ExpectedWrite(Idx(lastOp.idx), lastOp.pre,
                                 RawData(lastOp.val))

\* a set_simple with a matching hint over a slot holding a hash
C7_Witness ==
    /\ lastOp.name = "set_simple" /\ ~aborted
    /\ lastOp.hint # NoHint /\ lastOp.hint # ZeroHash
    /\ lastOp.val # 0
    /\ Len(trace) = 26

\* C8: a root read-back after a read that differs from the presented root
\* aborts get_simple and set_simple
C8_ReadBackChecked ==
    (lastOp.name \in {"get_simple", "set_simple"} /\ rbMismatch) => aborted

Altered(h) == h \in DOMAIN cache /\ ~Intact(cache, h)

\* the descent for key in tree r meets a slot whose cached payload was
\* altered
RECURSIVE PathAltered(_, _, _)
PathAltered(r, key, p) ==
    LET leaf == AccLeaf(r, LocalIndex(key, p))
    IN  IF leaf \notin DOMAIN cache \/ p > 7 THEN FALSE
        ELSE IF Altered(leaf) THEN TRUE
        ELSE IF cache[leaf][1] = W(TREE_NODE)
             THEN PathAltered(SubSeq(cache[leaf], 2, 5), key, p + 1)
             ELSE FALSE

\* C9: Merkle::get returns a length > 0 only with a payload whose hash under
\* pad is the hash stored in the slot; once the cached payload of a stored
\* hash is altered, Merkle::get on that slot and generic smt_get and smt_set
\* descending through it abort
C9_HashIntegrity ==
    /\ (lastOp.name = "get" /\ lastOp.len > 0) =>
          /\ ~aborted
          /\ Hash(lastOp.out, lastOp.pad) = StoredBefore
    /\ Simple =>
          \A n \in 1..NumIdx, pad \in BOOLEAN :
             Altered(AccLeaf(root, Idx(n))) =>
                ~get(Quiet(cache), root, Idx(n), pad).m.ok
    /\ Generic =>
          \A k \in 1..NumKeys :
             PathAltered(root, GenKey(k), 0) =>
                /\ ~smt_get(Quiet(cache), root, GenKey(k)).m.ok
                /\ \A v \in 1..NumVals :
                      ~smt_set(Quiet(cache), root, GenKey(k), Val(v)).m.ok
    /\ (lastOp.name \in {"get", "smt_get", "smt_set"}
          /\ (Simple => Altered(StoredBefore))
          /\ (Generic => PathAltered(lastOp.pre, GenKey(lastOp.key), 0)))
       => aborted

\* a generic smt_get aborted below the top level on an altered payload
C9_Witness ==
    /\ Generic /\ aborted /\ lastOp.name = "smt_get"
    /\ PathAltered(root, GenKey(lastOp.key), 0)
    /\ ~Altered(AccLeaf(root, LocalIndex(GenKey(lastOp.key), 0)))

NothingSet == ~Simple /\ \A k \in 1..NumKeys : ref[k] = 0

\* C10: on a tree made by Merkle::new() on which nothing was set, generic
\* smt_get returns length 0 and packed smt_get returns 0 for every key,
\* without aborting
C10_MissOnEmpty ==
    NothingSet =>
        /\ ~aborted
        /\ Generic =>
              /\ \A k \in 1..NumKeys : ObsGet(root, cache, k) = <<TRUE, 0, <<>> >>
              /\ lastOp.name = "smt_get" => lastOp.len = 0
        /\ Packed =>
              /\ \A k \in 1..NumKeys : ObsGetU64(root, cache, k) = <<TRUE, Zero>>
              /\ lastOp.name = "smt_get_u64" => lastOp.out = Zero

\* a generic smt_get ran on the fresh tree
C10_Witness ==
    /\ NothingSet /\ Generic /\ ~aborted
    /\ lastOp.name = "smt_get" /\ lastOp.len = 0 /\ lastOp.key = 2
    /\ Len(trace) = 13

Deep == variant = "deep"

ObsGetDeep(r, c, k) ==
    LET g == smt_get(Quiet(c), r, DeepKey(k))
    IN  <<g.m.ok, g.len, g.data, g.m.depth>>

\* C11: in the generic tree no call of smt_set_local or smt_get_local is
\* entered with path_index 8 or more, also for keys that part only at their
\* last segment, and no operation aborts; every key set reads back
C11_DepthBelow8 ==
    Deep =>
        /\ ~aborted
        /\ lastOp.depth < 8
        /\ \A k \in 1..NumKeys :
              LET o == ObsGetDeep(root, cache, k)
              IN  /\ o[1] /\ o[4] < 8
                  /\ ref[k] # 0 => (o[2] = Len(Val(ref[k])) /\ o[3] = Val(ref[k]))

\* an smt_set descended to path_index 7 to part keys 1 and 2
C11_Witness ==
    /\ Deep /\ ~aborted
    /\ lastOp.name = "smt_set" /\ lastOp.depth = 7
    /\ ref[1] # 0 /\ ref[2] # 0
    /\ ObsGetDeep(root, cache, 2)[4] = 7

\* the slots of the packed tree with root r that hold something
Slots(r) == {i \in DOMAIN AccTree(r) : AccTree(r)[i] # ZeroHash}

\* (key >> 32) as u32, the slot of key at level 1
HighIndex(key) == AsU32(Shr(key, 32))

\* the slot holds an inline entry of another key than key
OtherLeaf(slot, key) ==
    is_leaf(slot[4]) /\ ~is_empty(slot[4]) /\ slot[1] # key

\* C12: in the packed tree no descent goes below path_index 1 and no
\* operation aborts; a sub-tree holds only inline entries, each in the slot
\* of the high half of its key; smt_set_local_u64 entered at path_index 1 on
\* a NODE-flagged slot or on an inline entry of another key aborts, and so
\* does smt_get_local_u64 on a NODE-flagged slot
C12_PackedTwoLevels ==
    Packed =>
        /\ ~aborted
        /\ lastOp.depth <= 1
        /\ \A i \in Slots(root) :
              ~is_leaf(AccTree(root)[i][4]) =>
                 LET sub == ClearNode(AccTree(root)[i])
                 IN  /\ AccKnown(sub)
                     /\ \A j \in Slots(sub) :
                           LET e == AccTree(sub)[j]
                           IN  /\ is_leaf(e[4]) /\ ~is_empty(e[4])
                               /\ AsU32(e[1]) = i /\ HighIndex(e[1]) = j
        /\ \A k \in 1..NumKeys :
              LET slot == AccLeaf(root, HighIndex(PackedKey(k)))
              IN  /\ (~is_leaf(slot[4]) \/ OtherLeaf(slot, PackedKey(k))) =>
                        \A v \in 1..NumVals :
                           ~smt_set_local_u64(Quiet(cache), root, PackedKey(k),
                                              1, PackedVal(v)).m.ok
                  /\ ~is_leaf(slot[4]) =>
                        ~smt_get_local_u64(Quiet(cache), root, PackedKey(k),
                                           1).m.ok

\* key 3 was set into the sub-tree that holds key 1 while key 2 sits inline:
\* the top level holds a NODE-flagged slot and an inline entry that a
\* descent entered at path_index 1 would meet
C12_Witness ==
    /\ Packed /\ ~aborted
    /\ lastOp.name = "smt_set_u64" /\ lastOp.key = 3 /\ lastOp.depth = 1
    /\ ref[1] # 0 /\ ref[2] # 0
    /\ ~is_leaf(AccLeaf(root, HighIndex(PackedKey(1)))[4])
    /\ OtherLeaf(AccLeaf(root, HighIndex(PackedKey(3))), PackedKey(3))

Inline(key, v) == <<key, v, Zero, IS_EMPTY_BIT>>

\* the slot holds the root of a sub-tree of at least two entries, tagged
SubTreeSlot(slot) ==
    /\ AccKnown(ClearNode(slot))
    /\ Cardinality(Slots(ClearNode(slot))) >= 2
    /\ slot = TagNode(ClearNode(slot))

\* C13: after a packed smt_set(key, v) the slots on the path of key are the
\* top-level slot and, when that one is NODE-flagged, the level-1 slot; the
\* slot holding the entry is [key, v, 0, flags], a leaf that is_empty() does
\* not report empty; a slot is NODE-flagged exactly when it holds the root
\* of a sub-tree, and every other slot written holds an inline entry
C13_FlagConsistency ==
    (Packed /\ lastOp.name = "smt_set_u64" /\ ~aborted) =>
        LET key == PackedKey(lastOp.key)
            s0  == AccLeaf(root, AsU32(key))
            s1  == AccLeaf(ClearNode(s0), HighIndex(key))
        IN  /\ IF is_leaf(s0[4])
               THEN s0 = Inline(key, PackedVal(lastOp.val)) /\ ~is_empty(s0[4])
               ELSE /\ SubTreeSlot(s0)
                    /\ s1 = Inline(key, PackedVal(lastOp.val))
                    /\ is_leaf(s1[4]) /\ ~is_empty(s1[4])
            /\ \A i \in Slots(root) :
                  LET e == AccTree(root)[i]
                  IN  IF is_leaf(e[4])
                      THEN /\ ~is_empty(e[4])
                           /\ \E k \in 1..NumKeys :
                                 /\ ref[k] # 0
                                 /\ e = Inline(PackedKey(k), PackedVal(ref[k]))
                      ELSE SubTreeSlot(e)

\* key 3 was set, by a split or into the sub-tree it shares with key 1; the
\* root of that sub-tree has bit 61 set besides the NODE flag; key 2 sits
\* inline in the top level
C13_Witness ==
    /\ Packed /\ lastOp.name = "smt_set_u64" /\ ~aborted
    /\ lastOp.key = 3 /\ ref[2] # 0
    /\ ~is_leaf(AccLeaf(root, AsU32(PackedKey(3)))[4])
    /\ ~is_empty(AccLeaf(root, AsU32(PackedKey(3)))[4])
    /\ is_leaf(AccLeaf(root, AsU32(PackedKey(2)))[4])

\* the entry of key in the packed tree with root r (all zero when the slot
\* on its path is empty)
PackedEntry(r, key) ==
    LET s0 == AccLeaf(r, AsU32(key))
    IN  IF is_leaf(s0[4]) THEN s0 ELSE AccLeaf(ClearNode(s0), HighIndex(key))

\* the last operation set a key that held another value before
Overwrote ==
    /\ ~aborted
    /\ \/ /\ Generic /\ lastOp.name = "smt_set"
          /\ LET node == PathSlot(lastOp.pre, cache, GenKey(lastOp.key),
                                  0).node
             IN  /\ node # <<>> /\ node[1] = W(LEAF_NODE)
                 /\ SubSeq(node, 2, 5) = GenKey(lastOp.key)
                 /\ SubSeq(node, 6, Len(node)) # Val(lastOp.val)
       \/ /\ Packed /\ lastOp.name = "smt_set_u64"
          /\ LET e == PackedEntry(lastOp.pre, PackedKey(lastOp.key))
             IN  /\ ~is_empty(e[4]) /\ e[1] = PackedKey(lastOp.key)
                 /\ e[2] # PackedVal(lastOp.val)

\* C14: an smt_set, generic or packed, of a key that holds another value
\* leaves a top-level root that differs from the root before it
C14_OverwriteChangesRoot ==
    Overwrote => root # lastOp.pre

\* key 3 was overwritten inside the sub-tree it shares with key 1
C14_Witness ==
    /\ Overwrote /\ lastOp.key = 3 /\ ref[1] # 0
    /\ (Generic =>
           PathSlot(lastOp.pre, cache, GenKey(3), 0).level >= 1)
    /\ (Packed => ~is_leaf(AccLeaf(lastOp.pre, AsU32(PackedKey(3)))[4]))

\* the last operation was an smt_set of a key that the tree already held:
\* the two keys share all eight segments
SameKeySet ==
    /\ Deep /\ lastOp.name = "smt_set"
    /\ LET node == PathSlot(lastOp.pre, cache, DeepKey(lastOp.key), 0).node
       IN  /\ node # <<>> /\ node[1] = W(LEAF_NODE)
           /\ SubSeq(node, 2, 5) = DeepKey(lastOp.key)

\* C15 as claimed: smt_set calls whose keys share all eight segments end in
\* the fatal path of require(path_index < 8)
C15_SharedKeysFatal == SameKeySet => aborted

\* C15 as amended: smt_set calls whose keys share all eight segments are
\* sets of one key and overwrite its entry without aborting; a descent never
\* passes path_index 7, and smt_set_local or smt_get_local entered at
\* path_index 8 fails require(path_index < 8) without descending further
C15_DepthGuard ==
    Deep =>
        /\ SameKeySet =>
              /\ ~aborted /\ lastOp.depth <= 7
              /\ ObsGetDeep(root, cache, lastOp.key)[3] = Val(lastOp.val)
        /\ \A k \in 1..NumKeys :
              LET g == smt_get_local(Quiet(cache), root, DeepKey(k), 8)
              IN  /\ ~g.m.ok /\ g.m.depth = 8
                  /\ \A v \in 1..NumVals :
                        LET s == smt_set_local(Quiet(cache), root, DeepKey(k),
                                               8, Val(v))
                        IN  ~s.m.ok /\ s.m.depth = 8 /\ s.root = root

\* key 1 was set twice, with two payloads
C15_Witness ==
    /\ SameKeySet /\ ~aborted
    /\ lastOp.key = 1 /\ lastOp.val = 2 /\ ref[1] = 2
    /\ PathSlot(lastOp.pre, cache, DeepKey(1), 0).node
          = <<W(LEAF_NODE)>> \o DeepKey(1) \o Val(1)

\* the keys of K in the slot i of level p of the generic tree
SlotKeys(K, p, i) == {k \in K : LocalIndex(GenKey(k), p) = i}

\* the root of the generic tree that holds, from level p down, the entries
\* f[k] of the keys k of K: one leaf per slot with a single key, a TREE node
\* over the tree of the next level per slot with several
RECURSIVE TreeOf(_, _, _)
TreeOf(K, p, f) ==
    AccRoot([i \in {LocalIndex(GenKey(k), p) : k \in K} |->
               IF Cardinality(SlotKeys(K, p, i)) = 1
               THEN LET k == CHOOSE k \in SlotKeys(K, p, i) : TRUE
                    IN  Hash(<<W(LEAF_NODE)>> \o GenKey(k) \o Val(f[k]), TRUE)
               ELSE Hash(<<W(TREE_NODE)>> \o TreeOf(SlotKeys(K, p, i), p + 1, f),
                         TRUE)])

\* the same for the levels 1 and 0 of the packed tree
PackedSubOf(K, f) ==
    AccRoot([j \in {HighIndex(PackedKey(k)) : k \in K} |->
               LET k == CHOOSE k \in K : HighIndex(PackedKey(k)) = j
               IN  Inline(PackedKey(k), PackedVal(f[k]))])

PackedSlotKeys(K, i) == {k \in K : AsU32(PackedKey(k)) = i}

PackedTreeOf(K, f) ==
    AccRoot([i \in {AsU32(PackedKey(k)) : k \in K} |->
               IF Cardinality(PackedSlotKeys(K, i)) = 1
               THEN LET k == CHOOSE k \in PackedSlotKeys(K, i) : TRUE
                    IN  Inline(PackedKey(k), PackedVal(f[k]))
               ELSE TagNode(PackedSubOf(PackedSlotKeys(K, i), f))])

KeysSet == {k \in 1..NumKeys : ref[k] # 0}

\* every TREE node on the path of key k from level p down stores the root of
\* the tree of the keys of K that share its slot
RECURSIVE PointersOk(_, _, _, _)
PointersOk(r, K, p, k) ==
    LET i    == LocalIndex(GenKey(k), p)
        node == fetch_data(cache, AccLeaf(r, i))
    IN  IF node = <<>> \/ node[1] # W(TREE_NODE) THEN TRUE
        ELSE /\ SubSeq(node, 2, 5) = TreeOf(SlotKeys(K, p, i), p + 1, ref)
             /\ PointersOk(SubSeq(node, 2, 5), SlotKeys(K, p, i), p + 1, k)

WriteBlocks == {p \in 1..Len(trace) : WriteStartsAt(trace, p)}

LastWrite == CHOOSE p \in WriteBlocks : \A q \in WriteBlocks : q <= p

PrevWrite ==
    CHOOSE p \in WriteBlocks \ {LastWrite} :
       \A q \in WriteBlocks \ {LastWrite} : q <= p

\* the four words a block starting at p passed to merkle_set
WordsSet(p) == [i \in 1..4 |-> trace[p + 4 + i][2]]

\* the four words merkle_getroot returned at the end of the block at p
RootRead(p) == [i \in 1..4 |-> trace[p + 8 + i][2]]

\* the last smt_set wrote in a sub-tree and then in the slot of its parent
Folded ==
    /\ lastOp.name \in {"smt_set", "smt_set_u64"} /\ ~aborted
    /\ Cardinality(WriteBlocks) >= 2

\* C16: an smt_set that went through a sub-tree, old or made by a split,
\* writes last in the parent slot, and what it writes there is the root the
\* accumulator returned after the last write in the sub-tree (as a TREE
\* node, or NODE-flagged); in every state each pointer stored in a parent is
\* the root of the tree of the entries below it
C16_RootPropagation ==
    /\ (Generic /\ Folded) =>
          WordsSet(LastWrite)
             = Hash(<<W(TREE_NODE)>> \o RootRead(PrevWrite), TRUE)
    /\ (Packed /\ Folded) =>
          WordsSet(LastWrite) = TagNode(RootRead(PrevWrite))
    /\ Generic => \A k \in KeysSet : PointersOk(root, KeysSet, 0, k)
    /\ Packed =>
          \A k \in KeysSet :
             LET s0 == AccLeaf(root, AsU32(PackedKey(k)))
             IN  ~is_leaf(s0[4]) =>
                    s0 = TagNode(PackedSubOf(
                            PackedSlotKeys(KeysSet, AsU32(PackedKey(k))), ref))

\* key 2 was set through the TREE node over keys 1 and 3, whose sub-tree
\* holds a TREE node of its own
C16_Witness ==
    /\ Generic /\ Folded /\ lastOp.key = 2
    /\ KeysSet = {1, 2, 3}
    /\ PathSlot(lastOp.pre, cache, GenKey(2), 0).level = 1
    /\ PathSlot(root, cache, GenKey(3), 0).level = 2

\* C20: the top-level root, generic or packed, is the root of the tree
\* rebuilt from the key -> value map the smt_set calls ended with, whatever
\* their order; and so is every sub-tree, level by level
C20_OrderIndependence ==
    /\ Generic =>
          /\ root = TreeOf(KeysSet, 0, ref)
          /\ \A k \in KeysSet : PathSlot(root, cache, GenKey(k), 0).node
                = <<W(LEAF_NODE)>> \o GenKey(k) \o Val(ref[k])
    /\ Packed => root = PackedTreeOf(KeysSet, ref)

\* key 1 was set after key 3, which shares two levels with it, and after
\* key 2, which shares one: the map {1, 2, 3} is also reached in the order
\* 1, 2, 3
C20_Witness ==
    /\ ~Simple /\ ~aborted /\ KeysSet = {1, 2, 3}
    /\ lastOp.name \in {"smt_set", "smt_set_u64"} /\ lastOp.key = 1
    /\ (Generic => PathSlot(lastOp.pre, cache, GenKey(1), 0).level >= 1)

Reads == {"get_simple", "get", "smt_get", "smt_get_u64"}

Writes ==
    {"set_simple_unsafe", "set_simple", "set", "set_unsafe", "smt_set",
     "smt_set_u64"}

\* C17: get_simple, Merkle::get, generic and packed smt_get leave root as it
\* was, whatever merkle_getroot returned; an operation whose calls hold no
\* merkle_set leaves root as it was; a write that completes leaves in root
\* the four words merkle_getroot returned after its last four merkle_set
\* calls, in order
C17_ReadsKeepRoot ==
    /\ lastOp.name \in Reads => root = lastOp.pre
    /\ (lastOp.name \in Writes /\ WriteBlocks = {}) => root = lastOp.pre
    /\ (lastOp.name \in Writes /\ ~aborted) =>
          /\ WriteBlocks # {}
          /\ IsWriteBlock(trace, LastWrite)
          /\ LastWrite + 12 = Len(trace)
          /\ root = RootRead(LastWrite)

\* a generic smt_get ran on a tree that holds a sub-tree, and the
\* accumulator returned another root than the one presented
C17_Witness ==
    /\ Generic /\ lastOp.name = "smt_get" /\ rbMismatch /\ ~aborted
    /\ root = lastOp.pre /\ root # new
    /\ PathSlot(root, cache, GenKey(lastOp.key), 0).level >= 1
    /\ \E p \in 1..Len(trace) :
          /\ IsReadBlock(trace, p)
          /\ <<trace[p + 9][2], trace[p + 10][2], trace[p + 11][2],
               trace[p + 12][2]>> # root

\* the last operation was a Merkle::get that found no payload in the cache
EmptyFetch ==
    /\ lastOp.name = "get"
    /\ fetch_data(cache, StoredBefore) = <<>>

\* C18: a Merkle::get that returns length 0 read a stored hash of four zero
\* words; a Merkle::get for which the cache has no payload under a stored
\* hash with a non-zero word aborts
C18_EmptySlot ==
    /\ (lastOp.name = "get" /\ ~aborted /\ lastOp.len = 0) =>
          /\ StoredBefore = ZeroHash
          /\ lastOp.hint = ZeroHash
    /\ (EmptyFetch /\ StoredBefore # ZeroHash) => aborted
    /\ \A w \in 1..4 :
          ~get(Quiet(cache), AccRoot(AccWrite(new, Idx(1),
                                              [ZeroHash EXCEPT ![w] = W(1)])),
               Idx(1), TRUE).m.ok

\* a Merkle::get read a slot written by set_simple_unsafe with a hash the
\* cache knows nothing about
C18_Witness ==
    /\ EmptyFetch /\ aborted
    /\ StoredBefore # ZeroHash /\ StoredBefore \notin DOMAIN cache
    /\ Len(trace) = 13

\* C19: after Merkle::set or set_unsafe of a payload of any length,
\* Merkle::get of the same index and padding mode returns the length and
\* the words of the payload and its hash, without aborting
C19_HashedRoundTrip ==
    (lastOp.name \in {"set", "set_unsafe"} /\ ~aborted) =>
        LET g == get(Quiet(cache), root, Idx(lastOp.idx), lastOp.pad)
        IN  /\ g.m.ok
            /\ g.len = Len(Val(lastOp.val))
            /\ g.data = Val(lastOp.val)
            /\ g.hash = Hash(Val(lastOp.val), lastOp.pad)

\* the root of the sub-tree that the packed tree keeps under top-level slot
\* i, as the sub-tree wrapper held it when it was folded
FoldedRoot(i) == PackedSubOf(PackedSlotKeys(KeysSet, i), ref)

\* the last operation was a packed smt_set that folded a sub-tree root into
\* the top-level slot of its key
FoldedLast ==
    /\ Packed /\ ~aborted
    /\ lastOp.name = "smt_set_u64" /\ lastOp.depth = 1

\* C21: every NODE-flagged top-level slot of the packed tree is the folded
\* sub-tree root r with IS_NODE_BIT or-ed into word 3, is classified as
\* non-leaf, and clearing IS_NODE_BIT gives back r in all 4 words, the root
\* the next access loads and finds the entry under; every inline entry
\* carries IS_EMPTY_BIT alone in word 3 and is classified as leaf, as is
\* the all-zero word
C21_NodeTagRoundTrip ==
    Packed =>
        /\ is_leaf(Zero)
        /\ \A i \in Slots(root) :
              LET e == AccTree(root)[i]
                  r == FoldedRoot(i)
              IN  IF Cardinality(PackedSlotKeys(KeysSet, i)) >= 2
                  THEN /\ e = [r EXCEPT ![4] = WordOr(r[4], IS_NODE_BIT)]
                       /\ ~is_leaf(e[4])
                       /\ \A w \in 1..4 : ClearNode(e)[w] = r[w]
                       /\ \A j \in Slots(r) :
                             /\ AccTree(r)[j][4] = IS_EMPTY_BIT
                             /\ is_leaf(AccTree(r)[j][4])
                  ELSE e[4] = IS_EMPTY_BIT /\ is_leaf(e[4])
        /\ FoldedLast =>
              LET key == PackedKey(lastOp.key)
                  g   == smt_get_local_u64(Quiet(cache), root, key, 0)
              IN  /\ ClearNode(AccLeaf(root, AsU32(key)))
                         = FoldedRoot(AsU32(key))
                  /\ g.m.ok /\ g.m.depth = 1
                  /\ g.value = PackedVal(lastOp.val)

\* a set descended into a sub-tree that an earlier set had folded: the
\* tagged root was loaded, the sub-tree updated and its root tagged again;
\* that root has bit 61 set besides the NODE flag
C21_Witness ==
    /\ FoldedLast
    /\ ~is_leaf(AccLeaf(lastOp.pre, AsU32(PackedKey(lastOp.key)))[4])
    /\ ~is_empty(FoldedRoot(AsU32(PackedKey(lastOp.key)))[4])
    /\ root # lastOp.pre

(* Witness glue generated by #[derive(WitnessObj)] *)

MaxFields == 2
MaxWord == 1

\* a type: its kind, its name and its fields or variants, each an
\* identifier and a type (of a variant, the type of its one unnamed field)
U64 == [kind |-> "u64", name |-> "u64", members |-> <<>>]

Ident(i) == <<"a", "b", "c", "d">>[i]

Members(tys) == [i \in 1..Len(tys) |-> [ident |-> Ident(i), ty |-> tys[i]]]

StructOf(name, tys) ==
    [kind |-> "struct", name |-> name, members |-> Members(tys)]

EnumOf(name, tys) ==
    [kind |-> "enum", name |-> name, members |-> Members(tys)]

\* derived types that the fields and variants of the derive input use
Unit == StructOf("Unit", <<>>)

Pair == StructOf("Pair", <<U64, U64>>)

Tag == EnumOf("Tag", <<U64, Pair>>)

MemberTypes == {U64, Unit, Pair, Tag}

TypeLists(lo) == UNION {[1..n -> MemberTypes] : n \in lo..MaxFields}

\* the items the macro is applied to: structs with named fields and enums
\* whose variants hold one unnamed field
DeriveInputs ==
    {StructOf("S", tys) : tys \in TypeLists(0)}
        \cup {EnumOf("E", tys) : tys \in TypeLists(1)}

\* the type of the member named ident
MemberType(ty, ident) ==
    ty.members[CHOOSE i \in 1..Len(ty.members) :
                  ty.members[i].ident = ident].ty

Flatten(seqs) ==
    LET RECURSIVE Cat(_)
        Cat(i) == IF i > Len(seqs) THEN <<>> ELSE seqs[i] \o Cat(i + 1)
    IN  Cat(1)

RECURSIVE Objects(_)
\* the values of a type: a word, a map from field names to values, or a
\* variant name with its payload
Objects(ty) ==
    IF ty.kind = "u64" THEN 0..MaxWord
    ELSE IF ty.kind = "struct"
    THEN LET RECURSIVE Rows(_)
             Rows(i) ==
                 IF i > Len(ty.members) THEN {<<>>}
                 ELSE {<<o>> \o rest : o \in Objects(ty.members[i].ty),
                                       rest \in Rows(i + 1)}
         IN  {[i \in 1..Len(ty.members) |-> row[i]] : row \in Rows(1)}
    ELSE UNION {{<<ty.members[i].ident, o>> : o \in Objects(ty.members[i].ty)}
                  : i \in 1..Len(ty.members)}

Fd(f) == [name |-> f.ident]

Ed(f) == [name |-> f.ident, ty |-> f.ty]

StructContext(input) ==
    [name |-> input.name,
     fields |-> [i \in 1..Len(input.members) |-> Fd(input.members[i])]]

EnumContext(input) ==
    [name |-> input.name,
     variants |-> [i \in 1..Len(input.members) |-> Ed(input.members[i])]]

\* mutant: the reader takes the fields in reverse order
StructContext_witness_reader_reversed(self) ==
    [i \in 1..Len(self.fields) |->
        [field |-> self.fields[Len(self.fields) + 1 - i].name,
         call |-> "from_witness"]]

\* self.#name.from_witness(fetcher, base); for each field
StructContext_witness_reader(self) ==
    [i \in 1..Len(self.fields) |->
        [field |-> self.fields[i].name, call |-> "from_witness"]]

\* self.#name.to_witness(ori_base); for each field
StructContext_witness_writer(self) ==
    [i \in 1..Len(self.fields) |->
        [field |-> self.fields[i].name, call |-> "to_witness"]]

\* #index => (*(obj_ptr as *mut #ty)).from_witness(fetcher, base)
EnumContext_witness_reader(self) ==
    [i \in 1..Len(self.variants) |->
        [index |-> i - 1, ty |-> self.variants[i].ty]]

\* Self::#name(obj) => wasm_witness_insert(#index); obj.to_witness(ori_base)
EnumContext_witness_writer(self) ==
    [i \in 1..Len(self.variants) |->
        [pattern |-> self.variants[i].name, insert |-> i - 1]]

\* the position of the field named ident in a struct
FieldAt(ty, ident) ==
    CHOOSE i \in 1..Len(ty.members) : ty.members[i].ident = ident

Visit(path, word) == [path |-> path, word |-> word]

RECURSIVE to_witness(_, _, _)
\* the generated to_witness of ty on self: the words inserted into the
\* witness stream, each with the path of the value visited
to_witness(ty, self, path) ==
    IF ty.kind = "u64" THEN <<Visit(path, self)>>
    ELSE IF ty.kind = "struct"
    THEN LET body == StructContext_witness_writer(StructContext(ty))
         IN  Flatten([i \in 1..Len(body) |->
                        to_witness(MemberType(ty, body[i].field),
                                   self[FieldAt(ty, body[i].field)],
                                   Append(path, <<"field", body[i].field>>))])
    ELSE LET arms == EnumContext_witness_writer(EnumContext(ty))
             arm  == arms[CHOOSE i \in 1..Len(arms) :
                             arms[i].pattern = self[1]]
         IN  <<Visit(path, arm.insert)>>
                \o to_witness(MemberType(ty, arm.pattern), self[2],
                              Append(path, <<"variant", arm.insert>>))

\* fetcher(): the next word of the witness stream
Fetch(st, path) ==
    IF ~st.ok \/ st.fifo = <<>>
    THEN [st EXCEPT !.ok = FALSE]
    ELSE [st EXCEPT !.fifo = Tail(@), !.word = Head(st.fifo),
                    !.log = Append(@, Visit(path, Head(st.fifo)))]

RECURSIVE from_witness(_, _, _)
\* the generated from_witness of ty: st.image is what it leaves in self
from_witness(ty, st, path) ==
    IF ty.kind = "u64"
    THEN LET f == Fetch(st, path) IN [f EXCEPT !.image = f.word]
    ELSE IF ty.kind = "struct"
    THEN LET body == StructContext_witness_reader(StructContext(ty))
             RECURSIVE Run(_, _, _)
             Run(i, s, done) ==
                 IF i > Len(body)
                 THEN [s EXCEPT !.image =
                          [j \in 1..Len(ty.members) |->
                              done[CHOOSE n \in 1..Len(body) :
                                      body[n].field = ty.members[j].ident]]]
                 ELSE LET r == from_witness(
                                  MemberType(ty, body[i].field), s,
                                  Append(path, <<"field", body[i].field>>))
                      IN  Run(i + 1, r, Append(done, r.image))
         IN  Run(1, st, <<>>)
    ELSE LET arms == EnumContext_witness_reader(EnumContext(ty))
             f    == Fetch(st, path)
             hit  == {i \in 1..Len(arms) : arms[i].index = f.word}
         IN  IF ~f.ok \/ hit = {}
             THEN [f EXCEPT !.ok = FALSE]
             ELSE LET arm == arms[CHOOSE i \in hit : TRUE]
                      r   == from_witness(arm.ty, f,
                                Append(path, <<"variant", arm.index>>))
                  IN  [r EXCEPT !.image = <<f.word, r.image>>]

Reader(stream) ==
    [ok |-> TRUE, fifo |-> stream, word |-> 0, log |-> <<>>, image |-> <<>>]

Words(log) == [i \in 1..Len(log) |-> log[i].word]

InitWitness ==
    /\ variant = "witness"
    /\ root = new
    /\ cache = [h \in {} |-> <<>>]
    /\ trace = <<>>
    /\ aborted = FALSE
    /\ rbMismatch = FALSE
    /\ lastOp = [name |-> "new", key |-> 0, val |-> 0, idx |-> 0,
                 pad |-> FALSE, hint |-> NoHint, len |-> 0, out |-> <<>>,
                 pre |-> new, depth |-> 0]
    /\ ref = [k \in 1..NumKeys |-> 0]
    /\ nops = 0
    /\ NoWitness

\* derive_witness_obj(input)
Derive(input) ==
    /\ variant = "witness" /\ wstep = "idle"
    /\ wstep' = "derived"
    /\ derived' = input
    /\ UNCHANGED <<written, fifo, wlog, loaded, rlog>>
    /\ UNCHANGED mvars

\* obj.to_witness(base) on a value of the derived type
ToWitness(obj) ==
    /\ variant = "witness" /\ wstep = "derived"
    /\ wstep' = "written"
    /\ written' = obj
    /\ wlog' = to_witness(derived, obj, <<>>)
    /\ fifo' = Words(wlog')
    /\ UNCHANGED <<derived, loaded, rlog>>
    /\ UNCHANGED mvars

\* obj.from_witness(fetcher, base) on the words written
FromWitness ==
    /\ variant = "witness" /\ wstep = "written"
    /\ LET r == from_witness(derived, Reader(fifo), <<>>)
       IN  /\ wstep' = IF r.ok THEN "read" ELSE "failed"
           /\ fifo' = r.fifo
           /\ rlog' = r.log
           /\ loaded' = r.image
    /\ UNCHANGED <<derived, written, wlog>>
    /\ UNCHANGED mvars

NextWitness ==
    \/ \E input \in DeriveInputs : Derive(input)
    \/ \E obj \in Objects(derived) : ToWitness(obj)
    \/ FromWitness

SpecWitness == InitWitness /\ [][NextWitness]_vars

\* to_witness or from_witness has run on the derived type
Wrote == wstep \in {"written", "read", "failed"}

\* C22: the generated glue is order-symmetric.  For a derived struct the
\* statements of to_witness and of from_witness name the fields in
\* declaration order, one statement a field.  For a derived enum the arm of
\* variant i of to_witness inserts the index i (from 0) before it writes
\* the payload, and the arm of index i of from_witness reads the payload as
\* the type of variant i, after the one word from_witness fetched first.
\* The words in the stream are those to_witness visited, in order, an
\* enum's index before its payload; from_witness reads them all, fetching
\* each word for the value that to_witness wrote it for, in the same order
C22_OrderSymmetric ==
    /\ derived.kind = "struct" =>
          LET w == StructContext_witness_writer(StructContext(derived))
              r == StructContext_witness_reader(StructContext(derived))
          IN  /\ Len(w) = Len(derived.members) /\ Len(r) = Len(w)
              /\ \A i \in 1..Len(w) :
                    /\ w[i].field = derived.members[i].ident
                    /\ r[i].field = w[i].field
    /\ derived.kind = "enum" =>
          LET w == EnumContext_witness_writer(EnumContext(derived))
              r == EnumContext_witness_reader(EnumContext(derived))
          IN  /\ Len(w) = Len(derived.members) /\ Len(r) = Len(w)
              /\ \A i \in 1..Len(w) :
                    /\ w[i].pattern = derived.members[i].ident
                    /\ w[i].insert = i - 1
                    /\ r[i].index = i - 1
                    /\ r[i].ty = derived.members[i].ty
    /\ (Wrote /\ derived.kind = "enum") =>
          /\ wlog[1].path = <<>>
          /\ derived.members[wlog[1].word + 1].ident = written[1]
          /\ \A n \in 2..Len(wlog) :
                wlog[n].path[1] = <<"variant", wlog[1].word>>
    /\ wstep = "written" => fifo = Words(wlog)
    /\ wstep # "failed"
    /\ wstep = "read" => rlog = wlog /\ fifo = <<>>

\* a struct whose first field is the enum Tag, holding its second variant,
\* and whose second field is a word was written and read back: four words
\* in the stream, the index of the variant first
C22_Witness ==
    /\ wstep = "read"
    /\ derived.kind = "struct" /\ Len(derived.members) = 2
    /\ derived.members[1].ty = Tag /\ derived.members[2].ty = U64
    /\ written[1][1] = Ident(2)
    /\ Len(rlog) = 4 /\ rlog[1].word = 1
    /\ rlog[1].word # rlog[4].word

====
